---- MODULE Spec2Model ----
(***************************************************************************)
(* Model of keepdataflow/archive/database_operations.py: the class         *)
(* DatabaseOperations (db_insert, db_merge, db_merge_with_polars and the   *)
(* helpers they call), as a state machine of the calling thread, the       *)
(* worker threads of the ThreadPoolExecutor and the database they act on.  *)
(***************************************************************************)
EXTENDS Integers, Sequences, FiniteSets, TLC

\* Largest number of partitions the partitioner returns in the model.
MaxParts == 2

\* ThreadPoolExecutor() without max_workers: min(32, cpu_count + 4) threads,
\* which is at least 5.
PoolWorkers == 5

Parts == 1..MaxParts

\* The dialect names of create_temp_table_headers, and one that the table
\* does not hold.
Dialects ==
    {"oracle", "mssql", "db2", "postgresql", "mysql", "sqlite", "teradata",
     "hana", "snowflake", "redshift", "bigquery", "firebird"}

\* create_temp_table_headers; "None" is what dict.get returns for a missing key.
create_temp_table_headers(d) ==
    CASE d = "oracle"     -> "CREATE GLOBAL TEMPORARY TABLE"
      [] d = "mssql"      -> "CREATE TABLE ##"
      [] d = "db2"        -> ""
      [] d = "postgresql" -> "CREATE TEMP TABLE "
      [] d = "mysql"      -> "CREATE TEMPORARY TABLE "
      [] d = "sqlite"     -> "CREATE TEMP TABLE "
      [] d = "teradata"   -> ""
      [] d = "hana"       -> ""
      [] d = "snowflake"  -> ""
      [] d = "redshift"   -> "CREATE TEMP TABLE "
      [] d = "bigquery"   -> ""
      [] OTHER            -> "None"

\* The name of the target table of the model and the random suffixes drawn.
TargetTable == "orders"
Uids == {"abcd", "wxyz"}

\* Optional[List[str]] arguments: None, or a list of column names.
None == [isNone |-> TRUE, v |-> <<>>]
Some(l) == [isNone |-> FALSE, v |-> l]
ColumnArgs == {None, Some(<<>>), Some(<<"k">>)}

VARIABLES
    dataframe,   \* self.dataframe: "None" or "loaded"
    dialect,     \* the dialect of self.database_engine
    schema,      \* the target table's introspected columns: [pk, auto]
    pc,          \* position of the calling thread
    op,          \* the operation the caller invoked
    arg,         \* its arguments
    ins,         \* the arguments of the running db_insert
    loc,         \* the locals of db_merge / db_merge_with_polars
    nparts,      \* number of partitions the partitioner produced
    worker,      \* state of each partition's task in the executor
    handed,      \* times each partition was passed to insert_data_partition
    failed,      \* partitions whose insert raised
    db,          \* the database: old |-> rows from before the call are in the
                 \* target, target |-> partitions whose rows are in the target,
                 \* staging |-> partitions in the staging table, stagingTable |->
                 \* the name of the staging table that exists ("" when none),
                 \* merged |-> the merge statement took effect
    stmts,       \* statements issued to the engine by the running call
    returned,    \* how the last call ended
    sess,        \* sessions of the running call: closes |-> times the
                 \* pipeline session was closed, bind |-> statements run on
                 \* session.bind instead of the session, own |-> the scoped
                 \* session of each partition, via |-> the session each
                 \* partition's insert ran on
    names,       \* staging names generate_temp_table_name has returned
    temp_ddl     \* the text the identity rewrite of create_temp_table acts on

vars == <<dataframe, dialect, schema, pc, op, arg, ins, loc, nparts, worker,
          handed, failed, db, stmts, returned, sess, names, temp_ddl>>

NoStmts == [delete |-> 0, ddl |-> 0, insert |-> 0, merge |-> 0, commit |-> 0,
            read |-> 0]
NoArg == [target_schema |-> "", match_condition |-> None,
          constraint_columns |-> None, source_table_name |-> "None",
          source_query |-> "None"]
NoIns == [session |-> "none", full_refresh |-> "N", table |-> "none"]
NoSess == [closes |-> 0, bind |-> 0, own |-> [p \in Parts |-> "none"],
           via |-> [p \in Parts |-> "none"]]
NoText == [input |-> <<>>, output |-> <<>>, done |-> FALSE]
NoLoc == [constraint_list |-> <<>>, match_list |-> <<>>, dbms |-> "",
          gen_temp_table_name |-> "", temp_table |-> [header |-> "", name |-> ""],
          k |-> 0, sql_query |-> ""]

Init ==
    /\ dataframe = "None"
    /\ dialect \in Dialects
    /\ schema \in [pk : {<<>>, <<"id">>}, auto : {<<>>, <<"status">>}]
    /\ pc = "idle"
    /\ op = "none"
    /\ arg = NoArg
    /\ ins = NoIns
    /\ loc = NoLoc
    /\ nparts = 0
    /\ worker = [p \in Parts |-> "none"]
    /\ handed = [p \in Parts |-> 0]
    /\ failed = {}
    /\ db \in [old : BOOLEAN, target : {{}}, staging : {{}}, stagingTable : {""},
              merged : {FALSE}]
    /\ stmts = NoStmts
    /\ returned = [kind |-> "none", exc |-> ""]
    /\ sess = NoSess
    /\ names = {}
    /\ temp_ddl = NoText

\* ---------------------------------------------------------------- helpers

\* table_name_formattter(table_name, schema_name); "" is the schema None.
table_name_formattter(table_name, schema_name) ==
    IF schema_name # "" THEN schema_name \o "." \o table_name ELSE table_name

\* generate_temp_table_name(table_name) with the random suffix uid.
generate_temp_table_name(table_name, uid) ==
    "_source_" \o table_name \o "_" \o uid

\* The end of a call: the value or the exception the caller gets.
Finish(kind, exc) ==
    /\ returned' = [kind |-> kind, exc |-> exc]
    /\ pc' = "idle"

\* The state a new call starts from: rows a previous call left in the target
\* are rows from before this call.
FreshCall ==
    /\ pc = "idle"
    /\ loc' = NoLoc
    /\ nparts' = 0
    /\ worker' = [p \in Parts |-> "none"]
    /\ handed' = [p \in Parts |-> 0]
    /\ failed' = {}
    /\ stmts' = NoStmts
    /\ returned' = [kind |-> "none", exc |-> ""]
    /\ sess' = NoSess
    /\ UNCHANGED <<names, temp_ddl>>
    /\ db' = [old |-> db.old \/ db.target # {}, target |-> {}, staging |-> {},
              stagingTable |-> "", merged |-> FALSE]

\* load_dataframe(dataframe)
load_dataframe ==
    /\ pc = "idle"
    /\ dataframe' = "loaded"
    /\ UNCHANGED <<dialect, schema, pc, op, arg, ins, loc, nparts,
                   worker, handed, failed, db, stmts, returned,
                   sess, names, temp_ddl>>

\* The name the target table goes by in the statements of the running call.
TargetName == table_name_formattter(TargetTable, arg.target_schema)

\* The engine knows the target table and the staging table it created.
TableExists(name) ==
    \/ name = TargetName
    \/ name # "" /\ name = db.stagingTable

\* The database after the rows of partition p were appended to a table.
AppendRows(name, p) ==
    IF name = TargetName
    THEN [db EXCEPT !.target = @ \cup {p}]
    ELSE [db EXCEPT !.staging = @ \cup {p}]

\* ---------------------------------------------------------------- db_insert

\* A caller invokes db_insert(target_table, target_schema, session, full_refresh).
Call_db_insert(target_schema, session, full_refresh) ==
    /\ FreshCall
    /\ op' = "db_insert"
    /\ arg' = [NoArg EXCEPT !.target_schema = target_schema]
    /\ ins' = [session |-> session, full_refresh |-> full_refresh,
               table |-> table_name_formattter(TargetTable, target_schema)]
    /\ pc' = "i_check"
    /\ UNCHANGED <<dataframe, dialect, schema>>

\* db_insert, line 308: no DataFrame loaded.
db_insert_check ==
    /\ pc = "i_check"
    /\ IF dataframe = "None"
         THEN Finish("raise", "ValueError")
         ELSE pc' = "i_partition" /\ UNCHANGED returned
    /\ UNCHANGED <<dataframe, dialect, schema, op, arg, ins, loc, nparts,
                   worker, handed, failed, db, stmts,
                   sess, names, temp_ddl>>

\* db_insert, lines 314-317: partition the dataset; truncate on full refresh.
db_insert_partition ==
    /\ pc = "i_partition"
    /\ IF op = "db_insert" THEN nparts' \in 0..MaxParts ELSE UNCHANGED nparts
    /\ pc' = IF ins.full_refresh = "Y" THEN "t_execute" ELSE "i_submit"
    /\ UNCHANGED <<dataframe, dialect, schema, op, arg, ins, loc,
                   worker, handed, failed, db, stmts, returned,
                   sess, names, temp_ddl>>

\* truncate_table in which a rejected delete is printed and the load goes on.
truncate_table_execute_swallowed(ok) ==
    /\ pc = "t_execute"
    /\ stmts' = [stmts EXCEPT !.delete = @ + 1]
    /\ pc' = IF ok THEN "t_commit" ELSE "i_submit"
    /\ UNCHANGED <<dataframe, dialect, schema, op, arg, ins, loc, nparts,
                   worker, handed, failed, db, returned,
                   sess, names, temp_ddl>>

\* truncate_table, line 216: session.execute(DELETE FROM target).
truncate_table_execute(ok) ==
    /\ pc = "t_execute"
    /\ stmts' = [stmts EXCEPT !.delete = @ + 1]
    /\ IF ok THEN pc' = "t_commit" /\ UNCHANGED returned
             ELSE Finish("raise", "ExecutionError")
    /\ UNCHANGED <<dataframe, dialect, schema, op, arg, ins, loc, nparts,
                   worker, handed, failed, db,
                   sess, names, temp_ddl>>

\* truncate_table, line 217: session.commit(); the delete takes effect.
truncate_table_commit(ok) ==
    /\ pc = "t_commit"
    /\ stmts' = [stmts EXCEPT !.commit = @ + 1]
    /\ IF ok
         THEN /\ db' = [db EXCEPT !.old = FALSE]
              /\ pc' = "i_submit"
              /\ UNCHANGED returned
         ELSE /\ Finish("raise", "ExecutionError")
              /\ UNCHANGED db
    /\ UNCHANGED <<dataframe, dialect, schema, op, arg, ins, loc, nparts,
                   worker, handed, failed,
                   sess, names, temp_ddl>>

\* db_insert, lines 330-331: executor.map submits every partition at once.
db_insert_submit ==
    /\ pc = "i_submit"
    /\ worker' = [p \in Parts |-> IF p <= nparts THEN "queued" ELSE "none"]
    /\ pc' = "i_join"
    /\ UNCHANGED <<dataframe, dialect, schema, op, arg, ins, loc, nparts,
                   handed, failed, db, stmts, returned,
                   sess, names, temp_ddl>>

\* `with self.database_engine as db_session`: entering acquires a scoped
\* session for the partition, leaving releases it.
database_engine_enter(own, p) == [own EXCEPT ![p] = "held"]
database_engine_exit(own, p) == [own EXCEPT ![p] = "released"]

\* The partitions a pool thread is working on.
Running == {p \in Parts : worker[p] = "running"}

\* insert_partition_with_session(part), lines 319-326, up to and including
\* the call of session.execute in insert_data_partition (line 185): a pool
\* thread takes the task and passes the partition to insert_data_partition.
insert_partition_with_session(p) ==
    /\ pc = "i_join"
    /\ worker[p] = "queued"
    /\ Cardinality(Running) < PoolWorkers
    /\ worker' = [worker EXCEPT ![p] = "running"]
    /\ handed' = [handed EXCEPT ![p] = @ + 1]
    /\ stmts' = [stmts EXCEPT !.insert = @ + 1]
    /\ sess' = IF ins.session = "none"
               THEN [sess EXCEPT !.own = database_engine_enter(@, p),
                                 !.via[p] = "own"]
               ELSE [sess EXCEPT !.via[p] = "shared"]
    /\ UNCHANGED <<dataframe, dialect, schema, pc, op, arg, ins, loc, nparts,
                   failed, db, returned,
                   names, temp_ddl>>

\* insert_data_partition in which a failing insert cancels the partitions
\* still waiting in the pool.
insert_data_partition_cancelling(p, ok) ==
    /\ pc = "i_join"
    /\ worker[p] = "running"
    /\ ok => TableExists(ins.table)
    /\ sess' = IF ins.session = "none"
               THEN [sess EXCEPT !.own = database_engine_exit(@, p)] ELSE sess
    /\ IF ok
         THEN /\ db' = AppendRows(ins.table, p)
              /\ worker' = [worker EXCEPT ![p] = "done"]
              /\ UNCHANGED failed
         ELSE /\ failed' = failed \cup {p}
              /\ worker' = [q \in Parts |->
                              IF q = p \/ worker[q] = "queued" THEN "done"
                              ELSE worker[q]]
              /\ UNCHANGED db
    /\ UNCHANGED <<dataframe, dialect, schema, pc, op, arg, ins, loc, nparts,
                   handed, stmts, returned,
                   names, temp_ddl>>

\* insert_data_partition in which the partition's session is released only
\* after a successful insert.
insert_data_partition_leaking(p, ok) ==
    /\ pc = "i_join"
    /\ worker[p] = "running"
    /\ worker' = [worker EXCEPT ![p] = "done"]
    /\ ok => TableExists(ins.table)
    /\ sess' = IF ins.session = "none" /\ ok
               THEN [sess EXCEPT !.own = database_engine_exit(@, p)] ELSE sess
    /\ IF ok
         THEN /\ db' = AppendRows(ins.table, p)
              /\ UNCHANGED failed
         ELSE /\ failed' = failed \cup {p}
              /\ UNCHANGED db
    /\ UNCHANGED <<dataframe, dialect, schema, pc, op, arg, ins, loc, nparts,
                   handed, stmts, returned, names, temp_ddl>>

\* insert_data_partition that commits after a successful insert.
insert_data_partition_committing(p, ok) ==
    /\ pc = "i_join"
    /\ worker[p] = "running"
    /\ worker' = [worker EXCEPT ![p] = "done"]
    /\ ok => TableExists(ins.table)
    /\ sess' = IF ins.session = "none"
               THEN [sess EXCEPT !.own = database_engine_exit(@, p)] ELSE sess
    /\ IF ok
         THEN /\ db' = AppendRows(ins.table, p)
              /\ stmts' = [stmts EXCEPT !.commit = @ + 1]
              /\ UNCHANGED failed
         ELSE /\ failed' = failed \cup {p}
              /\ UNCHANGED <<db, stmts>>
    /\ UNCHANGED <<dataframe, dialect, schema, pc, op, arg, ins, loc, nparts,
                   handed, returned, names, temp_ddl>>

\* insert_data_partition, lines 178-188, and the end of its task (lines
\* 325-328): the insert returns, or it raises and the exception is printed;
\* either way the partition's own session is released and the task ends
\* normally. No commit is issued.
insert_data_partition(p, ok) ==
    /\ pc = "i_join"
    /\ worker[p] = "running"
    /\ worker' = [worker EXCEPT ![p] = "done"]
    /\ ok => TableExists(ins.table)
    /\ sess' = IF ins.session = "none"
               THEN [sess EXCEPT !.own = database_engine_exit(@, p)] ELSE sess
    /\ IF ok
         THEN /\ db' = AppendRows(ins.table, p)
              /\ UNCHANGED failed
         ELSE /\ failed' = failed \cup {p}
              /\ UNCHANGED db
    /\ UNCHANGED <<dataframe, dialect, schema, pc, op, arg, ins, loc, nparts,
                   handed, stmts, returned,
                   names, temp_ddl>>

\* db_insert that does not wait for the pool's tasks before it returns.
db_insert_join_nowait ==
    /\ pc = "i_join"
    /\ IF op = "db_insert"
         THEN Finish("return", "")
         ELSE pc' = "m_upsert" /\ UNCHANGED returned
    /\ UNCHANGED <<dataframe, dialect, schema, op, arg, ins, loc, nparts,
                   worker, handed, failed, db, stmts,
                   sess, names, temp_ddl>>

\* db_insert, line 330: leaving the with block waits for every task; then
\* db_insert returns None.
db_insert_join ==
    /\ pc = "i_join"
    /\ \A p \in Parts : worker[p] \in {"none", "done"}
    /\ IF op = "db_insert"
         THEN Finish("return", "")
         ELSE pc' = "m_upsert" /\ UNCHANGED returned
    /\ UNCHANGED <<dataframe, dialect, schema, op, arg, ins, loc, nparts,
                   worker, handed, failed, db, stmts,
                   sess, names, temp_ddl>>

\* ------------------------------------------------------- create_temp_table

\* create_temp_table, lines 157-168: the DDL text it returns, kept as the
\* header that replaced "CREATE TABLE " and the table name that follows it.
\* A dialect missing from the table gives header None, and str.replace
\* raises TypeError on it.
\* The table name in the text is qualified by target_schema (line 142).
create_temp_table(dbms_dialect, new_table_name, target_schema) ==
    LET temp_table_header == create_temp_table_headers(dbms_dialect)
    IN  IF temp_table_header = "None"
        THEN [kind |-> "raise", exc |-> "TypeError",
              ddl |-> [header |-> "", name |-> ""]]
        ELSE [kind |-> "return", exc |-> "",
              ddl |-> [header |-> temp_table_header,
                       name |-> table_name_formattter(new_table_name,
                                                      target_schema)]]

\* What the engine makes of the DDL text: the name of the table it creates,
\* or "" when the text is no statement (the header is empty, or runs into
\* the table name without a space).
EngineCreates(ddl) ==
    CASE ddl.header = "CREATE TABLE ##" -> "##" \o ddl.name
      [] ddl.header \in {"CREATE TEMP TABLE ", "CREATE TEMPORARY TABLE "} -> ddl.name
      [] OTHER -> ""

\* ----------------------------------------- db_merge, db_merge_with_polars

MergeOps == {"db_merge", "db_merge_with_polars"}

\* A caller invokes db_merge or db_merge_with_polars; line 343 / 386 acquires
\* the session of the pipeline.
Call_db_merge(o, target_schema, match_condition, constraint_columns) ==
    /\ FreshCall
    /\ o \in MergeOps
    /\ op' = o
    /\ arg' = [NoArg EXCEPT !.target_schema = target_schema,
                            !.match_condition = match_condition,
                            !.constraint_columns = constraint_columns]
    /\ ins' = NoIns
    /\ pc' = "m_schema"
    /\ UNCHANGED <<dataframe, dialect, schema>>

\* Line 344 / 387: get_table_column_info reads the target's columns.
get_table_column_info(ok) ==
    /\ pc = "m_schema"
    /\ IF ok THEN pc' = "m_partition" /\ UNCHANGED returned
             ELSE Finish("raise", "IntrospectionError")
    /\ UNCHANGED <<dataframe, dialect, schema, op, arg, ins, loc, nparts,
                   worker, handed, failed, db, stmts,
                   sess, names, temp_ddl>>

\* The match list taken as `match_condition or primary_key_list`.
match_list_or == IF Len(arg.match_condition.v) = 0 THEN schema.pk
                 ELSE arg.match_condition.v

\* Lines 346-347 / 389-390: the column lists of the merge statement.
constraint_list == IF arg.constraint_columns.isNone THEN schema.auto
                   ELSE arg.constraint_columns.v
match_list == IF arg.match_condition.isNone THEN schema.pk
              ELSE arg.match_condition.v

\* Lines 345-348 / 388-391: partition the dataset, resolve the column lists
\* and the dialect. The partitioner is given None when no dataset is loaded,
\* and raises.
db_merge_resolve ==
    /\ pc = "m_partition"
    /\ \/ /\ dataframe = "loaded"
          /\ nparts' \in 0..MaxParts
          /\ UNCHANGED returned
          /\ pc' = "m_create"
          /\ loc' = [loc EXCEPT !.constraint_list = constraint_list,
                                !.match_list = match_list,
                                !.dbms = dialect]
       \/ /\ dataframe = "None"
          /\ Finish("raise", "TypeError")
          /\ UNCHANGED <<nparts, loc>>
    /\ UNCHANGED <<dataframe, dialect, schema, op, arg, ins, worker, handed,
                   failed, db, stmts,
                   sess, names, temp_ddl>>

\* Lines 351-354 / 394-397: generate the staging name and render its DDL.
\* The caller's target_schema is the third positional argument, which is
\* create_temp_table's source_schema: its target_schema stays None. The
\* inspector of create_temp_table reads through session.bind (lines 126-128)
\* and may raise; leaving `with session:` (line 125) closes the session.
db_merge_create_temp_table(uid, ok) ==
    /\ pc = "m_create"
    /\ names' = names \cup {generate_temp_table_name(TargetTable, uid)}
    /\ sess' = [sess EXCEPT !.closes = @ + 1, !.bind = @ + 1]
    /\ LET gen_temp_table_name == generate_temp_table_name(TargetTable, uid)
           r == create_temp_table(dialect, gen_temp_table_name, "")
       IN  IF ~ok
           THEN Finish("raise", "IntrospectionError") /\ UNCHANGED loc
           ELSE IF r.kind = "raise"
           THEN Finish("raise", r.exc) /\ UNCHANGED loc
           ELSE /\ loc' = [loc EXCEPT !.gen_temp_table_name = gen_temp_table_name,
                                      !.temp_table = r.ddl]
                /\ pc' = "m_ddl"
                /\ UNCHANGED returned
    /\ UNCHANGED <<dataframe, dialect, schema, op, arg, ins, nparts,
                   worker, handed, failed, db, stmts,
                   temp_ddl>>

\* db_merge that loads the partitions into the target table itself.
db_merge_execute_ddl_into_target(ok) ==
    /\ pc = "m_ddl"
    /\ stmts' = [stmts EXCEPT !.ddl = @ + 1]
    /\ ok => EngineCreates(loc.temp_table) # ""
    /\ IF ok
         THEN /\ db' = [db EXCEPT !.stagingTable = EngineCreates(loc.temp_table)]
              /\ LET name == IF loc.dbms = "mssql"
                              THEN "##" \o loc.gen_temp_table_name
                              ELSE loc.gen_temp_table_name
                 IN  /\ loc' = [loc EXCEPT !.gen_temp_table_name = name, !.k = 1]
                     /\ ins' = IF op = "db_merge"
                               THEN [session |-> "shared", full_refresh |-> "N",
                                     table |-> TargetName]
                               ELSE ins
              /\ pc' = IF op = "db_merge" THEN "i_check" ELSE "p_write"
              /\ UNCHANGED returned
         ELSE /\ Finish("raise", "ExecutionError")
              /\ UNCHANGED <<db, loc, ins>>
    /\ UNCHANGED <<dataframe, dialect, schema, op, arg, nparts,
                   worker, handed, failed,
                   sess, names, temp_ddl>>

\* Lines 356-364 / 399-404: session.execute(text(temp_table)), then the name
\* fixup for mssql and the start of the load. The engine rejects a text that
\* is no statement.
db_merge_execute_ddl(ok) ==
    /\ pc = "m_ddl"
    /\ stmts' = [stmts EXCEPT !.ddl = @ + 1]
    /\ ok => EngineCreates(loc.temp_table) # ""
    /\ IF ok
         THEN /\ db' = [db EXCEPT !.stagingTable = EngineCreates(loc.temp_table)]
              /\ LET name == IF loc.dbms = "mssql"
                              THEN "##" \o loc.gen_temp_table_name
                              ELSE loc.gen_temp_table_name
                 IN  /\ loc' = [loc EXCEPT !.gen_temp_table_name = name, !.k = 1]
                     /\ ins' = IF op = "db_merge"
                               THEN [session |-> "shared", full_refresh |-> "N",
                                     table |-> name]
                               ELSE ins
              /\ pc' = IF op = "db_merge" THEN "i_check" ELSE "p_write"
              /\ UNCHANGED returned
         ELSE /\ Finish("raise", "ExecutionError")
              /\ UNCHANGED <<db, loc, ins>>
    /\ UNCHANGED <<dataframe, dialect, schema, op, arg, nparts,
                   worker, handed, failed,
                   sess, names, temp_ddl>>

\* db_merge_with_polars, lines 405-406: the partitions are written one after
\* the other on the calling thread, over connection=session.bind; a failing
\* write raises.
db_merge_with_polars_write(ok) ==
    /\ pc = "p_write"
    /\ \/ /\ loc.k > nparts
          /\ pc' = "m_upsert"
          /\ UNCHANGED <<loc, db, stmts, returned, sess>>
       \/ /\ loc.k <= nparts
          /\ stmts' = [stmts EXCEPT !.insert = @ + 1]
          /\ sess' = [sess EXCEPT !.bind = @ + 1]
          /\ ok => TableExists(loc.gen_temp_table_name)
          /\ IF ok
               THEN /\ db' = AppendRows(loc.gen_temp_table_name, loc.k)
                    /\ loc' = [loc EXCEPT !.k = @ + 1]
                    /\ UNCHANGED <<pc, returned>>
               ELSE /\ Finish("raise", "ExecutionError")
                    /\ UNCHANGED <<db, loc>>
    /\ UNCHANGED <<dataframe, dialect, schema, op, arg, ins, nparts, worker,
                   handed, failed,
                   names, temp_ddl>>

\* upsert_data_partition in which a rejected merge statement is printed and
\* the commit still follows.
upsert_data_partition_execute_swallowed(ok) ==
    /\ pc = "m_upsert"
    /\ stmts' = [stmts EXCEPT !.merge = @ + 1]
    /\ db' = IF ok THEN [db EXCEPT !.target = @ \cup db.staging, !.merged = TRUE]
             ELSE db
    /\ pc' = "m_commit"
    /\ UNCHANGED <<dataframe, dialect, schema, op, arg, ins, loc, nparts,
                   worker, handed, failed, returned,
                   sess, names, temp_ddl>>

\* upsert_data_partition, lines 200-210: generate the merge statement from
\* match_condition and constraint_columns and execute it.
upsert_data_partition_execute(ok) ==
    /\ pc = "m_upsert"
    /\ stmts' = [stmts EXCEPT !.merge = @ + 1]
    /\ IF ok
         THEN /\ db' = [db EXCEPT !.target = @ \cup db.staging, !.merged = TRUE]
              /\ pc' = "m_commit"
              /\ UNCHANGED returned
         ELSE /\ Finish("raise", "ExecutionError")
              /\ UNCHANGED db
    /\ UNCHANGED <<dataframe, dialect, schema, op, arg, ins, loc, nparts,
                   worker, handed, failed,
                   sess, names, temp_ddl>>

\* upsert_data_partition that is run once for every staged partition.
upsert_data_partition_commit_per_partition(ok) ==
    /\ pc = "m_commit"
    /\ stmts' = [stmts EXCEPT !.commit = @ + 1]
    /\ IF ~ok
         THEN Finish("raise", "ExecutionError") /\ UNCHANGED loc
         ELSE IF stmts.merge < nparts
         THEN pc' = "m_upsert" /\ UNCHANGED <<loc, returned>>
         ELSE Finish("return", "") /\ UNCHANGED loc
    /\ UNCHANGED <<dataframe, dialect, schema, op, arg, ins, nparts,
                   worker, handed, failed, db,
                   sess, names, temp_ddl>>

\* upsert_data_partition, line 211: session.commit(); then the merge returns.
upsert_data_partition_commit(ok) ==
    /\ pc = "m_commit"
    /\ stmts' = [stmts EXCEPT !.commit = @ + 1]
    /\ IF ok THEN Finish("return", "") ELSE Finish("raise", "ExecutionError")
    /\ UNCHANGED <<dataframe, dialect, schema, op, arg, ins, loc, nparts,
                   worker, handed, failed, db,
                   sess, names, temp_ddl>>

\* ----------------------------------------------------------- copy_source_db

\* Optional[str] arguments: "None" is None, "" the empty string.
SourceTables == {"None", "", "orders"}
SourceQueries == {"None", "", "SELECT 1", "q.sql"}

\* The truth value Python gives an Optional[str].
Truthy(x) == x \notin {"None", ""}

\* get_sql_query, lines 258-274: the text of an existing .sql file, else the
\* input itself; q.sql is the one file that exists.
get_sql_query(sql_input) ==
    IF sql_input = "q.sql" THEN "SELECT 2" ELSE sql_input

\* A caller invokes copy_source_db(source_db_url, source_table_name,
\* source_query).
Call_copy_source_db(source_table_name, source_query) ==
    /\ FreshCall
    /\ op' = "copy_source_db"
    /\ arg' = [NoArg EXCEPT !.source_table_name = source_table_name,
                            !.source_query = source_query]
    /\ ins' = NoIns
    /\ pc' = "c_check"
    /\ UNCHANGED <<dataframe, dialect, schema>>

\* copy_source_db that requires both arguments.
copy_source_db_check_all(ok) ==
    /\ pc = "c_check"
    /\ IF ~ok
         THEN Finish("raise", "ArgumentError") /\ UNCHANGED loc
         ELSE IF ~(Truthy(arg.source_table_name) /\ Truthy(arg.source_query))
         THEN Finish("raise", "ValueError") /\ UNCHANGED loc
         ELSE /\ loc' = [loc EXCEPT !.sql_query =
                            IF arg.source_query # "None"
                            THEN get_sql_query(arg.source_query)
                            ELSE "SELECT * FROM " \o
                                 table_name_formattter(arg.source_table_name, "")]
              /\ pc' = "c_read"
              /\ UNCHANGED returned
    /\ UNCHANGED <<dataframe, dialect, schema, op, arg, ins, nparts, worker,
                   handed, failed, db, stmts, sess, names, temp_ddl>>

\* copy_source_db, lines 248-278: create_engine may reject the URL; the call
\* raises ValueError when neither argument is truthy; else the query text is
\* the caller's query when one is given, and SELECT * FROM the table if not.
copy_source_db_check(ok) ==
    /\ pc = "c_check"
    /\ IF ~ok
         THEN Finish("raise", "ArgumentError") /\ UNCHANGED loc
         ELSE IF ~(Truthy(arg.source_table_name) \/ Truthy(arg.source_query))
         THEN Finish("raise", "ValueError") /\ UNCHANGED loc
         ELSE /\ loc' = [loc EXCEPT !.sql_query =
                            IF arg.source_query # "None"
                            THEN get_sql_query(arg.source_query)
                            ELSE "SELECT * FROM " \o
                                 table_name_formattter(arg.source_table_name, "")]
              /\ pc' = "c_read"
              /\ UNCHANGED returned
    /\ UNCHANGED <<dataframe, dialect, schema, op, arg, ins, nparts, worker,
                   handed, failed, db, stmts, sess, names, temp_ddl>>

\* copy_source_db, lines 281-285: read the source into self.dataframe.
copy_source_db_read(ok) ==
    /\ pc = "c_read"
    /\ stmts' = [stmts EXCEPT !.read = @ + 1]
    /\ ok => loc.sql_query # ""
    /\ IF ok
         THEN dataframe' = "loaded" /\ Finish("return", "")
         ELSE UNCHANGED dataframe /\ Finish("raise", "ExecutionError")
    /\ UNCHANGED <<dialect, schema, op, arg, ins, loc, nparts, worker,
                   handed, failed, db, sess, names, temp_ddl>>

\* ------------------------------------------------------------ specification

Schemas == {"", "dbo"}

Next ==
    \/ load_dataframe
    \/ \E ts \in Schemas, s \in {"none", "shared"}, fr \in {"N", "Y"} :
          Call_db_insert(ts, s, fr)
    \/ db_insert_check
    \/ db_insert_partition
    \/ \E ok \in BOOLEAN : truncate_table_execute(ok)
    \/ \E ok \in BOOLEAN : truncate_table_commit(ok)
    \/ db_insert_submit
    \/ \E p \in Parts : insert_partition_with_session(p)
    \/ \E p \in Parts, ok \in BOOLEAN : insert_data_partition(p, ok)
    \/ db_insert_join
    \/ \E o \in MergeOps, ts \in Schemas, mc \in ColumnArgs, cc \in ColumnArgs :
          Call_db_merge(o, ts, mc, cc)
    \/ \E ok \in BOOLEAN : get_table_column_info(ok)
    \/ db_merge_resolve
    \/ \E uid \in Uids, ok \in BOOLEAN : db_merge_create_temp_table(uid, ok)
    \/ \E ok \in BOOLEAN : db_merge_execute_ddl(ok)
    \/ \E ok \in BOOLEAN : db_merge_with_polars_write(ok)
    \/ \E ok \in BOOLEAN : upsert_data_partition_execute(ok)
    \/ \E ok \in BOOLEAN : upsert_data_partition_commit(ok)
    \/ \E t \in SourceTables, q \in SourceQueries : Call_copy_source_db(t, q)
    \/ \E ok \in BOOLEAN : copy_source_db_check(ok)
    \/ \E ok \in BOOLEAN : copy_source_db_read(ok)

Spec == Init /\ [][Next]_vars

\* ------------------------------------ create_temp_table: identity rewrite

\* The rendered DDL as a sequence of lexical pieces; at most MaxDDLLen of
\* them.
MaxDDLLen == 6
DDLAtoms == {"IDENTITY", "(", "1", ",", ")", "_COL"}
DDLTexts == UNION {[1..n -> DDLAtoms] : n \in 0..MaxDDLLen}

\* \d+ at position i of s: the number of digits it takes.
RECURSIVE digits(_, _)
digits(s, i) ==
    IF i <= Len(s) /\ s[i] = "1" THEN 1 + digits(s, i + 1) ELSE 0

\* (\(\d+,\d+\))? at position i of s: the number of pieces the group
\* takes, 0 when it does not match.
identity_group(s, i) ==
    IF ~(i <= Len(s) /\ s[i] = "(") THEN 0
    ELSE LET a == digits(s, i + 1)
             j == i + 1 + a
         IN  IF ~(a > 0 /\ j <= Len(s) /\ s[j] = ",") THEN 0
             ELSE LET b == digits(s, j + 1)
                      k == j + 1 + b
                  IN  IF b > 0 /\ k <= Len(s) /\ s[k] = ")"
                      THEN k - i + 1 ELSE 0

\* re.sub(r'IDENTITY(\(\d+,\d+\))?', '', temp_ddl), lines 165-166: from
\* left to right, every IDENTITY and the group after it are dropped.
RECURSIVE re_sub(_)
re_sub(s) ==
    IF Len(s) = 0 THEN <<>>
    ELSE IF Head(s) = "IDENTITY"
    THEN re_sub(SubSeq(s, 2 + identity_group(s, 2), Len(s)))
    ELSE <<Head(s)>> \o re_sub(Tail(s))

\* create_temp_table is about to rewrite a rendered DDL text.
InitStrip ==
    /\ temp_ddl \in {[input |-> s, output |-> <<>>, done |-> FALSE] :
                        s \in DDLTexts}
    /\ dataframe = "None"
    /\ dialect = "mssql"
    /\ schema = [pk |-> <<"id">>, auto |-> <<"status">>]
    /\ pc = "m_create"
    /\ op = "db_merge"
    /\ arg = NoArg
    /\ ins = NoIns
    /\ loc = NoLoc
    /\ nparts = 0
    /\ worker = [p \in Parts |-> "none"]
    /\ handed = [p \in Parts |-> 0]
    /\ failed = {}
    /\ db = [old |-> FALSE, target |-> {}, staging |-> {}, stagingTable |-> "",
             merged |-> FALSE]
    /\ stmts = NoStmts
    /\ returned = [kind |-> "none", exc |-> ""]
    /\ sess = NoSess
    /\ names = {}

\* create_temp_table, lines 165-168: the identity clauses are removed from
\* the text, which is returned.
create_temp_table_rewrite ==
    /\ ~temp_ddl.done
    /\ temp_ddl' = [temp_ddl EXCEPT !.output = re_sub(temp_ddl.input),
                                    !.done = TRUE]
    /\ UNCHANGED <<dataframe, dialect, schema, pc, op, arg, ins, loc, nparts,
                   worker, handed, failed, db, stmts, returned, sess, names>>

NextStrip == create_temp_table_rewrite

SpecStrip == InitStrip /\ [][NextStrip]_vars

\* --------------------------------------------------------------- properties

\* The running call is past the executor of db_insert: every task ended.
InsertJoined ==
    \/ op = "db_insert" /\ pc = "idle" /\ returned.kind = "return"
    \/ op = "db_merge" /\ (pc \in {"m_upsert", "m_commit"} \/ stmts.merge > 0)

\* C1: when the insert of a partition failed in db_insert, the caller gets an
\* error (or a report) naming the failed partitions; db_insert never returns
\* normally with nothing while a partition's rows were not inserted.
C1_FailureSurfaced ==
    (op = "db_insert" /\ pc = "idle" /\ failed # {}) => returned.kind = "raise"

\* C2: db_insert hands every partition to insert_data_partition exactly once:
\* never twice, each task of the pool is waiting, running or done (never
\* cancelled), and once the pool is joined every partition was handed once,
\* whatever partitions failed.
C2_EveryPartitionHandedOnce ==
    /\ \A p \in Parts : handed[p] <= 1
    /\ pc = "i_join" =>
          \A p \in 1..nparts :
             /\ worker[p] \in {"queued", "running", "done"}
             /\ handed[p] = IF worker[p] = "queued" THEN 0 ELSE 1
    /\ InsertJoined =>
          \A p \in Parts : handed[p] = IF p <= nparts THEN 1 ELSE 0

\* C2's case: db_insert returned, one partition failed and another did not,
\* and both were handed to insert_data_partition.
C2_Witness ==
    /\ op = "db_insert" /\ pc = "idle" /\ returned.kind = "return"
    /\ nparts >= 2
    /\ failed # {} /\ db.target # {}
    /\ \A p \in 1..nparts : handed[p] = 1

\* C3: in db_insert with full_refresh = 'Y' the delete is executed and
\* committed before the first partition is inserted, a failed delete leaves
\* no partition inserted, and the target never holds rows from before the
\* call together with rows of the load.
C3_FullRefreshDeletesFirst ==
    (op = "db_insert" /\ ins.full_refresh = "Y") =>
       /\ (stmts.insert > 0 \/ \E p \in Parts : worker[p] # "none") =>
             (stmts.delete = 1 /\ stmts.commit = 1 /\ ~db.old)
       /\ ~(db.old /\ db.target # {})
       /\ (pc = "idle" /\ returned.kind = "raise" /\ stmts.delete = 1) =>
             (stmts.insert = 0 /\ db.target = {})

\* C3's case: a full refresh whose delete is committed and whose partitions
\* are being inserted.
C3_Witness ==
    /\ op = "db_insert" /\ ins.full_refresh = "Y"
    /\ stmts.delete = 1 /\ stmts.commit = 1
    /\ db.target # {} /\ Running # {}

\* C4: in db_merge and db_merge_with_polars the staging DDL is executed
\* before any partition is loaded, and when the merge statement runs every
\* partition's load has been started and has finished.
C4_MergePhasesOrdered ==
    op \in MergeOps =>
       /\ stmts.insert > 0 => (stmts.ddl = 1 /\ db.stagingTable # "")
       /\ (pc = "m_upsert" \/ stmts.merge > 0) =>
             /\ stmts.insert = nparts
             /\ \A p \in Parts : worker[p] \in {"none", "done"}
             /\ op = "db_merge" => \A p \in 1..nparts : worker[p] = "done"
             /\ op = "db_merge_with_polars" => loc.k > nparts

\* C4's case: db_merge executed its merge statement after loading several
\* partitions.
C4_Witness ==
    /\ op = "db_merge" /\ stmts.merge = 1 /\ db.merged /\ nparts >= 2
    /\ stmts.ddl = 1 /\ stmts.insert = nparts /\ db.staging = 1..nparts

\* C5: with a caller-supplied session no two pool threads execute a statement
\* on that session at the same time.
C5_SharedSessionSerialized ==
    ins.session = "shared" => Cardinality(Running) <= 1

\* C6: in db_merge a failed load of a partition into the staging table
\* aborts the merge: the merge statement is not executed and the caller gets
\* the error.
C6_MergeAbortsOnFailure ==
    (op = "db_merge" /\ failed # {}) =>
       /\ stmts.merge = 0
       /\ pc = "idle" => returned.kind = "raise"

\* C7: in db_merge a rejected staging DDL ends the call with an error before
\* any partition is loaded or any merge statement executed; a rejected merge
\* statement ends the call with an error before any commit; and the staging
\* table, once created, is still there.
C7_MergeFailuresPropagate ==
    op = "db_merge" =>
       /\ (stmts.ddl = 1 /\ db.stagingTable = "") =>
             /\ pc = "idle" /\ returned.kind = "raise"
             /\ stmts.insert = 0 /\ stmts.merge = 0 /\ stmts.commit = 0
       /\ (stmts.merge = 1 /\ ~db.merged) =>
             /\ pc = "idle" /\ returned.kind = "raise"
             /\ stmts.commit = 0
       /\ (stmts.insert > 0 \/ stmts.merge > 0) =>
             db.stagingTable = EngineCreates(loc.temp_table)

\* C7's case: the merge statement of db_merge was rejected.
C7_Witness ==
    /\ op = "db_merge" /\ pc = "idle" /\ returned.kind = "raise"
    /\ stmts.merge = 1 /\ ~db.merged /\ stmts.commit = 0
    /\ db.stagingTable # ""

\* The conditions the error taxonomy calls InvalidArgument and
\* SchemaResolutionError, as far as the arguments and the engine decide them.
InvalidCall ==
    \/ dataframe = "None"
    \/ /\ op \in MergeOps
       /\ \/ Len(match_list) = 0
          \/ Len(constraint_list) = 0
          \/ create_temp_table_headers(dialect) \in {"", "None"}

\* A statement of the running call took effect: a DELETE was issued, the
\* staging table was created, rows were inserted or the merge was applied.
Mutated ==
    \/ stmts.delete > 0
    \/ db.stagingTable # ""
    \/ db.staging # {} \/ db.target # {}
    \/ db.merged

\* C8: a call of db_insert or db_merge under an InvalidArgument or
\* SchemaResolutionError condition ends without any mutation: no DELETE, no
\* staging DDL, no INSERT and no merge statement has taken effect.
C8_InvalidCallMutatesNothing ==
    (op # "none" /\ pc = "idle" /\ InvalidCall) => ~Mutated

\* C9: create_temp_table returns no DDL text for a dialect whose temp-table
\* header is empty or missing: the call fails instead.
C9_UnsupportedDialectFails ==
    (op \in MergeOps /\ create_temp_table_headers(dialect) \in {"", "None"}) =>
       (pc # "m_ddl" /\ stmts.ddl = 0)

\* C10: whenever a merge statement is generated, the match-column list and
\* the constraint-column list given to the generator are non-empty.
C10_MergeColumnsNonEmpty ==
    stmts.merge > 0 => (Len(loc.match_list) > 0 /\ Len(loc.constraint_list) > 0)

\* C11: db_merge and db_merge_with_polars give the merge statement the
\* caller's match_condition when one is supplied and the primary-key columns
\* when not, and the caller's constraint_columns when supplied and the auto
\* columns when not; each list is resolved without regard to the other.
C11_ColumnsResolved ==
    (op \in MergeOps /\ (loc.dbms # "" \/ stmts.merge > 0)) =>
       /\ ~arg.match_condition.isNone => loc.match_list = arg.match_condition.v
       /\ arg.match_condition.isNone => loc.match_list = schema.pk
       /\ ~arg.constraint_columns.isNone =>
             loc.constraint_list = arg.constraint_columns.v
       /\ arg.constraint_columns.isNone => loc.constraint_list = schema.auto

\* C11's case: a merge statement was executed with the caller's match
\* columns and the introspected auto columns.
C11_Witness ==
    /\ op = "db_merge" /\ stmts.merge = 1 /\ db.merged
    /\ arg.match_condition = Some(<<"k">>) /\ arg.constraint_columns = None
    /\ schema.pk = <<"id">> /\ schema.auto = <<"status">>
    /\ loc.match_list = <<"k">> /\ loc.constraint_list = <<"status">>

\* copy_source_db has ended.
CopyEnded == op = "copy_source_db" /\ pc = "idle" /\ returned.kind # "none"

\* C12 as stated: copy_source_db succeeds only when exactly one of
\* source_table_name and source_query is supplied, and when neither or both
\* are supplied it fails with an invalid-argument error and reads nothing.
C12_ExactlyOneSource ==
    CopyEnded =>
       LET one == Truthy(arg.source_table_name) # Truthy(arg.source_query)
       IN  /\ returned.kind = "return" => one
           /\ ~one => (returned.kind = "raise" /\ stmts.read = 0)

\* C12 amended: copy_source_db raises ValueError and reads nothing exactly
\* when neither source_table_name nor source_query is supplied (both None
\* or empty), so it succeeds only when at least one is supplied; when both
\* are supplied it does not fail on that account: unless create_engine
\* rejected the URL, it reads the source with the query and ignores the
\* table name.
C12_AtLeastOneSource ==
    CopyEnded =>
       LET any == Truthy(arg.source_table_name) \/ Truthy(arg.source_query)
           both == Truthy(arg.source_table_name) /\ Truthy(arg.source_query)
       IN  /\ returned.kind = "return" => any
           /\ ~any => /\ returned.kind = "raise" /\ stmts.read = 0
                       /\ returned.exc \in {"ValueError", "ArgumentError"}
           /\ any => returned.exc # "ValueError"
           /\ (both /\ returned.exc # "ArgumentError") =>
                 /\ stmts.read = 1
                 /\ loc.sql_query = get_sql_query(arg.source_query)

\* C12's case: copy_source_db was given a table name and a query, read the
\* source with the query and returned the dataset.
C12_Witness ==
    /\ CopyEnded /\ returned.kind = "return"
    /\ arg.source_table_name = "orders" /\ arg.source_query = "SELECT 1"
    /\ stmts.read = 1 /\ loc.sql_query = "SELECT 1" /\ dataframe = "loaded"

\* C13: every statement of a merge pipeline runs in the one session acquired
\* at the start of the merge: nothing goes around it through session.bind,
\* and the session is not closed between the schema read and the commit.
C13_SingleSessionHeld ==
    op \in MergeOps => (sess.closes = 0 /\ sess.bind = 0)

\* C14: a db_merge that returns normally has executed exactly one merge
\* statement and then exactly one commit, however many partitions were
\* staged; no db_merge executes a second merge statement, and none commits
\* before the merge statement.
C14_OneMergeOneCommit ==
    op = "db_merge" =>
       /\ stmts.merge <= 1 /\ stmts.commit <= 1
       /\ stmts.commit > 0 => stmts.merge = 1
       /\ (pc = "idle" /\ returned.kind = "return") =>
             (stmts.merge = 1 /\ stmts.commit = 1)

\* C14's case: db_merge returned after staging several partitions.
C14_Witness ==
    /\ op = "db_merge" /\ pc = "idle" /\ returned.kind = "return"
    /\ nparts >= 2 /\ db.staging = 1..nparts
    /\ stmts.merge = 1 /\ stmts.commit = 1

\* C15: in db_merge, for every dialect with a temp-table header, the staging
\* DDL creates '##' + generated name under mssql and the generated name,
\* unprefixed, under any other dialect, with or without a target schema;
\* the load and the merge statement refer to that table.
C15_StagingNameIsCreatedTable ==
    (op = "db_merge" /\ create_temp_table_headers(dialect) \notin {"", "None"}) =>
       /\ pc = "m_ddl" =>
             EngineCreates(loc.temp_table) =
                IF dialect = "mssql" THEN "##" \o loc.gen_temp_table_name
                ELSE loc.gen_temp_table_name
       /\ stmts.insert > 0 => ins.table = db.stagingTable
       /\ stmts.merge > 0 => loc.gen_temp_table_name = db.stagingTable

\* C16: the staging name a merge generates was generated by no earlier
\* merge on the same target table.
C16_StagingNameUnique ==
    [][(pc = "m_create" /\ pc' = "m_ddl") =>
          loc'.gen_temp_table_name \notin names]_vars

\* C17: in db_insert without a session every running partition holds a
\* session of its own and inserts through it, every ended partition has
\* released its session whether its insert succeeded or failed, and when
\* db_insert returns every partition has ended and no session is held.
C17_OwnSessionsReleased ==
    (op = "db_insert" /\ ins.session = "none") =>
       /\ \A p \in Parts :
             /\ worker[p] \in {"none", "queued"} => sess.own[p] = "none"
             /\ worker[p] = "running" =>
                   (sess.own[p] = "held" /\ sess.via[p] = "own")
             /\ worker[p] = "done" =>
                   (sess.own[p] = "released" /\ sess.via[p] = "own")
       /\ (pc = "idle" /\ returned.kind = "return") =>
             /\ \A p \in 1..nparts : worker[p] = "done"
             /\ \A p \in Parts : sess.own[p] # "held"

\* C17's case: db_insert without a session returned after one partition's
\* insert succeeded and another's failed; both sessions are released.
C17_Witness ==
    /\ op = "db_insert" /\ ins.session = "none"
    /\ pc = "idle" /\ returned.kind = "return" /\ nparts >= 2
    /\ failed # {} /\ db.target # {}
    /\ \A p \in 1..nparts : sess.own[p] = "released"

\* The pieces an identifier is made of, and the texts of which piece i is an
\* IDENTITY standing alone, not part of a longer identifier.
WordAtoms == {"IDENTITY", "1", "_COL"}
WholeToken(s, i) ==
    /\ s[i] = "IDENTITY"
    /\ i = 1 \/ s[i - 1] \notin WordAtoms
    /\ i = Len(s) \/ s[i + 1] \notin WordAtoms

\* C18: the identity rewrite leaves a text unchanged in which IDENTITY
\* occurs only inside longer identifiers such as IDENTITY_COL, and from a
\* text in which every IDENTITY stands alone it removes every IDENTITY,
\* with the (n,n) pair after it when there is one.
C18_WholeTokenIdentityStripped ==
    temp_ddl.done =>
       LET s == temp_ddl.input
           at == {i \in 1..Len(s) : s[i] = "IDENTITY"}
       IN  /\ (\A i \in at : ~WholeToken(s, i)) => temp_ddl.output = s
           /\ (\A i \in at : WholeToken(s, i)) =>
                 /\ \A j \in 1..Len(temp_ddl.output) :
                       temp_ddl.output[j] # "IDENTITY"
                 /\ s = <<"IDENTITY", "(", "1", ",", "1", ")">> =>
                       temp_ddl.output = <<>>

\* C19: while the merge statement of db_merge has not taken effect, no step
\* of the call changes the target table: no row is written to it, no row of
\* it is deleted, no DELETE is issued, and every insert of the load phase is
\* addressed to the staging table.
C19_TargetUntouchedBeforeMerge ==
    [][(op = "db_merge" /\ pc # "idle" /\ ~db'.merged) =>
          /\ db'.old = db.old /\ db'.target = {}
          /\ stmts'.delete = 0
          /\ stmts'.insert > stmts.insert =>
                (ins.table = db.stagingTable /\ ins.table # TargetName)]_vars

\* C19's case: a db_merge over a target that holds rows loaded its staging
\* table and failed at the merge statement; the target is as it was.
C19_Witness ==
    /\ op = "db_merge" /\ pc = "idle" /\ returned.kind = "raise"
    /\ db.staging # {} /\ stmts.merge = 1 /\ ~db.merged
    /\ db.old /\ db.target = {}

\* C20: no step of a partition's insert, from its hand-over to the release
\* of its session, issues a commit; a commit is issued only by
\* truncate_table and by upsert_data_partition after the merge statement.
C20_OnlyTruncateAndUpsertCommit ==
    [][pc # "idle" =>
          /\ (worker' # worker \/ stmts'.insert # stmts.insert) =>
                stmts'.commit = stmts.commit
          /\ stmts'.commit # stmts.commit =>
                /\ pc \in {"t_commit", "m_commit"}
                /\ pc = "m_commit" => stmts.merge = 1]_vars

\* C20's case: db_insert without full refresh returned with partitions
\* inserted through their own sessions, and no commit was issued.
C20_Witness ==
    /\ op = "db_insert" /\ ins.session = "none" /\ ins.full_refresh = "N"
    /\ pc = "idle" /\ returned.kind = "return"
    /\ stmts.insert >= 2 /\ db.target # {} /\ stmts.commit = 0

====
